---- MODULE Spec2Model ----
(***************************************************************************)
(* A model of server.js: the OAuth token cache (getAccessToken), the       *)
(* generative-AI fallback loop (callGemini) with its two POST handlers,    *)
(* the Open Food Facts gateways (fetchFoods, findFoodByBarcode) and the    *)
(* /api/search response cache.                                             *)
(*                                                                         *)
(* Every asynchronous function is cut at its awaits: one action runs from  *)
(* one await to the next, which is what Node's run-to-completion           *)
(* scheduling makes atomic.  Time is Date.now() in milliseconds.           *)
(***************************************************************************)
EXTENDS Integers, Sequences, FiniteSets, TLC

VARIABLES now, tokenCache, call, wire, processed,
          GEMINI_API_KEY, GEMINI_MODELS, GEMINI_API_VERSIONS, greq, glog,
          OFF_BASE_URL, searchCache, sreq, sres, offered, breq, bres,
          freq, fres, exch

tokenVars == <<tokenCache, call, wire, processed>>
geminiConfig == <<GEMINI_API_KEY, GEMINI_MODELS, GEMINI_API_VERSIONS>>
geminiVars == <<GEMINI_API_KEY, GEMINI_MODELS, GEMINI_API_VERSIONS, greq, glog>>
searchVars == <<searchCache, sreq, sres, offered>>
barcodeVars == <<breq, bres>>
foodVars == <<freq, fres, exch>>
vars == <<now, tokenCache, call, wire, processed,
          GEMINI_API_KEY, GEMINI_MODELS, GEMINI_API_VERSIONS, greq, glog,
          OFF_BASE_URL, searchCache, sreq, sres, offered, breq, bres,
          freq, fres, exch>>

----------------------------------------------------------------------------
(* Bounds of the model.                                                    *)

\* concurrent getAccessToken invocations
MaxCalls == 2
\* the clock runs from 0 to MaxTicks * StepMs
MaxTicks == 2
\* one tick of the clock, in milliseconds
StepMs == 10000
\* the longest configured list of AI models, and of API versions
MaxModels == 2
MaxVersions == 2
\* concurrent /api/search requests
MaxSearches == 2
\* the search clock runs to MaxLongTicks * LongStepMs
MaxLongTicks == 2
\* one long tick of the clock, in milliseconds (half the cache's TTL)
LongStepMs == 150000
\* the page and page_size parameters range from -1 to MaxPageParam and to
\* MaxPageSize + MaxOver
MaxPageParam == 2
MaxOver == 1
\* the longest serving_size string
MaxStrLen == 3

(* Program constants.                                                      *)

\* the 10_000 of `now < tokenCache.expiresAt - 10_000`
TokenMarginMs == 10000
\* 5 * 60 * 1000
SEARCH_CACHE_TTL_MS == 300000
\* the 50 of Math.min(Number(pageSize), 50), and the defaults around it
MaxPageSize == 50
InvalidPageSizeDefault == 20
HandlerPageSizeDefault == 12
HandlerPageDefault == 1

----------------------------------------------------------------------------
(* Values.                                                                 *)

\* JavaScript null
Null == "null"
\* the absence of a result (a slot that holds nothing yet)
None == "none"

\* a string is truthy unless it is empty; null is falsy
Truthy(v) == v # Null /\ v # ""

Status2xx(status) == status >= 200 /\ status < 300

Tick ==
    /\ now < MaxTicks * StepMs
    /\ now' = now + StepMs
    /\ UNCHANGED <<tokenVars, geminiVars, OFF_BASE_URL, searchVars, barcodeVars, foodVars>>

----------------------------------------------------------------------------
(* Token Manager: tokenCache and getAccessToken.                           *)

Calls == 1 .. MaxCalls

\* what the token endpoint may answer: requestJson's {status, text, json},
\* or a transport error (requestText rejects)
AccessTokens == {"", "tokA", "tokB"}
ExpiresIn == {0, 30}
TokenJson == [access_token : AccessTokens, expires_in : ExpiresIn]
\* parsed = FALSE is requestJson's json = null (JSON.parse threw, line 65)
NoTokenJson == [access_token |-> "", expires_in |-> 0]
TokenResponses ==
    {[kind |-> "error", status |-> 0, parsed |-> FALSE, json |-> NoTokenJson]}
    \cup {[kind |-> "response", status |-> 500, parsed |-> FALSE, json |-> NoTokenJson]}
    \cup {[kind |-> "response", status |-> 500, parsed |-> TRUE,
           json |-> [access_token |-> "", expires_in |-> 0]]}
    \cup {[kind |-> "response", status |-> 200, parsed |-> FALSE, json |-> NoTokenJson]}
    \cup [kind : {"response"}, status : {200}, parsed : {TRUE}, json : TokenJson]

\* own is the access_token the call's own exchange answered (None: no answer)
IdleCall == [pc |-> "idle", now |-> 0, outcome |-> None, ret |-> None, own |-> None]

InitToken ==
    /\ tokenCache = [token |-> Null, expiresAt |-> 0]
    /\ call = [c \in Calls |-> IdleCall]
    /\ wire = {}
    /\ processed = [any |-> FALSE, now |-> 0, json |-> NoTokenJson]

\* the reuse test with the margin taken on both sides of the comparison
CachedTokenValid_MarginTwice(cache, t) ==
    Truthy(cache.token) /\ t + TokenMarginMs < cache.expiresAt - TokenMarginMs

\* line 125: the cached token is reused
CachedTokenValid(cache, t) ==
    Truthy(cache.token) /\ t < cache.expiresAt - TokenMarginMs

\* the status of the answer is not looked at
ExchangeFails_StatusIgnored(r) == r.kind = "error" \/ ~r.parsed

\* requestText rejects, line 145 throws, or data.access_token of null throws
\* at line 149: nothing is written
ExchangeFails(r) == r.kind = "error" \/ ~Status2xx(r.status) \/ ~r.parsed

\* the token is written and the expiry is not
StoreToken_TokenOnly(cache, t, data) ==
    [token |-> data.access_token, expiresAt |-> cache.expiresAt]

\* lines 149-150: the two writes, with no await between them
StoreToken(cache, t, data) ==
    [token |-> data.access_token, expiresAt |-> t + data.expires_in * 1000]

\* lines 124-142: from the call to the await of the exchange.  The slots are
\* interchangeable, so a new invocation takes the first free one.
GetAccessToken(c) ==
    /\ call[c].pc = "idle"
    /\ \A d \in Calls : d < c => call[d].pc # "idle"
    /\ IF CachedTokenValid(tokenCache, now)
       THEN /\ call' = [call EXCEPT ![c] =
                    [pc |-> "done", now |-> now, outcome |-> "cached",
                     ret |-> tokenCache.token, own |-> None]]
            /\ wire' = wire
       ELSE /\ call' = [call EXCEPT ![c] =
                    [pc |-> "awaiting", now |-> now, outcome |-> None,
                     ret |-> None, own |-> None]]
            /\ wire' = wire \cup {c}
    /\ UNCHANGED <<now, tokenCache, processed, geminiVars, OFF_BASE_URL, searchVars, barcodeVars, foodVars>>

\* lines 135, 144-151: the exchange's answer arrives
ExchangeResponse(c) ==
    /\ call[c].pc = "awaiting"
    /\ c \in wire
    /\ \E r \in TokenResponses :
        /\ wire' = wire \ {c}
        /\ IF ExchangeFails(r)
           THEN /\ call' = [call EXCEPT ![c].pc = "done",
                                        ![c].outcome = "failed"]
                /\ UNCHANGED <<tokenCache, processed>>
           ELSE /\ tokenCache' = StoreToken(tokenCache, call[c].now, r.json)
                /\ call' = [call EXCEPT ![c].pc = "done",
                                        ![c].outcome = "exchanged",
                                        ![c].ret = tokenCache'.token,
                                        ![c].own = r.json.access_token]
                /\ processed' = [any |-> TRUE, now |-> call[c].now, json |-> r.json]
    /\ UNCHANGED <<now, geminiVars, OFF_BASE_URL, searchVars, barcodeVars, foodVars>>

\* the caller has taken the result; the slot serves the next invocation
CallReturns(c) ==
    /\ call[c].pc = "done"
    /\ call' = [call EXCEPT ![c] = IdleCall]
    /\ UNCHANGED <<now, tokenCache, wire, processed, geminiVars, OFF_BASE_URL, searchVars, barcodeVars, foodVars>>

NextToken ==
    \/ Tick
    \/ \E c \in Calls : GetAccessToken(c)
    \/ \E c \in Calls : ExchangeResponse(c)
    \/ \E c \in Calls : CallReturns(c)

----------------------------------------------------------------------------
(* Generative-AI gateway: callGemini and the two POST handlers.            *)

Routes == {"/api/food-suggest", "/api/label-ocr"}

\* the request bodies, by what JSON.parse and the field reads make of them:
\*   ""          nothing was sent
\*   "{oops"     not JSON
\*   "null"      JSON, but not an object
\*   "{}"        an object without the required field
\*   "{f:''}"    the required field is the empty string
\*   "{f:' '}"   the required field is blank
\*   "{f:'x'}"   the required field has a value
Bodies == {"", "{oops", "null", "{}", "{f:''}", "{f:' '}", "{f:'x'}"}

Undefined == "undefined"

\* JSON.parse(body || "{}"), lines 481 and 542: what it returns, or that it throws
JsonParseBody(body) ==
    LET text == IF body = "" THEN "{}" ELSE body IN
    CASE text = "{oops"  -> [threw |-> TRUE, isNull |-> FALSE, field |-> Undefined]
      [] text = "null"   -> [threw |-> FALSE, isNull |-> TRUE, field |-> Undefined]
      [] text = "{}"     -> [threw |-> FALSE, isNull |-> FALSE, field |-> Undefined]
      [] text = "{f:''}" -> [threw |-> FALSE, isNull |-> FALSE, field |-> ""]
      [] text = "{f:' '}" -> [threw |-> FALSE, isNull |-> FALSE, field |-> " "]
      [] OTHER           -> [threw |-> FALSE, isNull |-> FALSE, field |-> "x"]

Trim(str) == IF str = " " THEN "" ELSE str

\* line 482: String(parsed.query || "").trim(); line 543: parsed.image || ""
RequiredField(route, parsed) ==
    LET v == IF parsed.field = Undefined \/ parsed.field = "" THEN "" ELSE parsed.field IN
    IF route = "/api/food-suggest" THEN Trim(v) ELSE v

\* what the generation endpoint may answer.  text stands for the first text
\* part of the first candidate: "{json}" is text parseGeminiJson turns into
\* an object, "prose" text it turns into null.
GeminiResponses ==
    {[kind |-> "error", status |-> 0, text |-> ""]}
    \cup [kind : {"response"}, status : {200}, text : {"", "{json}", "prose"}]
    \cup [kind : {"response"}, status : {0, 404, 500}, text : {""}]

\* lines 70-92, by its result only: null or not
ParseGeminiJsonIsNull(text) == text # "{json}"

IdleRequest == [pc |-> "idle", route |-> None, body |-> "", i |-> 0, j |-> 0,
                status |-> 0, threw |-> FALSE]

InitGemini ==
    /\ GEMINI_API_KEY \in BOOLEAN
    /\ \E n \in 0 .. MaxModels : GEMINI_MODELS = [k \in 1 .. MaxModels - n |-> k]
    /\ \E n \in 0 .. MaxVersions : GEMINI_API_VERSIONS = [k \in 1 .. MaxVersions - n |-> k]
    /\ greq = IdleRequest
    /\ glog = <<>>

\* the HTTP response is written and the handler is finished
Respond(status, threw) ==
    greq' = [greq EXCEPT !.pc = "responded", !.status = status, !.threw = threw]

\* lines 469-479 and 530-540: the request arrives
PostArrives(route) ==
    /\ greq.pc = "idle"
    /\ glog' = <<>>
    /\ IF ~GEMINI_API_KEY
       THEN greq' = [IdleRequest EXCEPT !.pc = "responded", !.route = route,
                                        !.status = 500]
       ELSE greq' = [IdleRequest EXCEPT !.pc = "reading", !.route = route]
    /\ UNCHANGED <<now, tokenVars, geminiConfig, OFF_BASE_URL, searchVars, barcodeVars, foodVars>>

\* lines 97-105: the generation call for GEMINI_MODELS[i], GEMINI_API_VERSIONS[j]
IssueCall(i, j) ==
    Append(glog, [model |-> GEMINI_MODELS[i], version |-> GEMINI_API_VERSIONS[j],
                  outcome |-> "pending"])

\* lines 479-504 and 540-572: the body has been read; up to callGemini's first await
BodyEnd(body) ==
    /\ greq.pc = "reading"
    /\ LET parsed == JsonParseBody(body) IN
       IF parsed.threw \/ parsed.isNull
       THEN \* JSON.parse or the field read throws: the outer catch, 500
            /\ greq' = [greq EXCEPT !.pc = "responded", !.status = 500, !.body = body]
            /\ glog' = glog
       ELSE IF RequiredField(greq.route, parsed) = ""
       THEN /\ greq' = [greq EXCEPT !.pc = "responded", !.status = 400, !.body = body]
            /\ glog' = glog
       ELSE IF GEMINI_MODELS = <<>> \/ GEMINI_API_VERSIONS = <<>>
       THEN \* no pair to call: line 118 throws, the inner catch answers 500
            /\ greq' = [greq EXCEPT !.pc = "responded", !.status = 500,
                                    !.threw = TRUE, !.body = body]
            /\ glog' = glog
       ELSE /\ greq' = [greq EXCEPT !.pc = "awaiting", !.body = body, !.i = 1, !.j = 1]
            /\ glog' = IssueCall(1, 1)
    /\ UNCHANGED <<now, tokenVars, geminiConfig, OFF_BASE_URL, searchVars, barcodeVars, foodVars>>

SetOutcome(log, outcome) == [log EXCEPT ![Len(log)].outcome = outcome]

\* lines 101-120 and the handlers' lines 505-521, 573-587: an answer arrives
GeminiResponse ==
    /\ greq.pc = "awaiting"
    /\ \E r \in GeminiResponses :
        IF r.kind = "error"
        THEN \* requestText rejects: callGemini throws out of both loops
             /\ glog' = SetOutcome(glog, "error")
             /\ Respond(500, TRUE)
        ELSE IF Status2xx(r.status)
        THEN /\ glog' = SetOutcome(glog, "2xx")
             /\ Respond(IF ParseGeminiJsonIsNull(r.text) THEN 500 ELSE 200, FALSE)
        ELSE IF greq.j < Len(GEMINI_API_VERSIONS)
        THEN /\ glog' = SetOutcome(glog, "non2xx") \o
                         <<[model |-> GEMINI_MODELS[greq.i],
                            version |-> GEMINI_API_VERSIONS[greq.j + 1],
                            outcome |-> "pending"]>>
             /\ greq' = [greq EXCEPT !.j = greq.j + 1]
        ELSE IF greq.i < Len(GEMINI_MODELS)
        THEN /\ glog' = SetOutcome(glog, "non2xx") \o
                         <<[model |-> GEMINI_MODELS[greq.i + 1],
                            version |-> GEMINI_API_VERSIONS[1],
                            outcome |-> "pending"]>>
             /\ greq' = [greq EXCEPT !.i = greq.i + 1, !.j = 1]
        ELSE /\ glog' = SetOutcome(glog, "non2xx")
             /\ Respond(500, TRUE)
    /\ UNCHANGED <<now, tokenVars, geminiConfig, OFF_BASE_URL, searchVars, barcodeVars, foodVars>>

\* the client has its answer; the next request may come
PostDone ==
    /\ greq.pc = "responded"
    /\ greq' = IdleRequest
    /\ glog' = <<>>
    /\ UNCHANGED <<now, tokenVars, geminiConfig, OFF_BASE_URL, searchVars, barcodeVars, foodVars>>

NextGemini ==
    \/ \E route \in Routes : PostArrives(route)
    \/ \E body \in Bodies : BodyEnd(body)
    \/ GeminiResponse
    \/ PostDone

----------------------------------------------------------------------------
(* Open Food Facts: the base URLs, fetchFoods and the /api/search cache.   *)

World == "https://world.openfoodfacts.org"
Es == "https://es.openfoodfacts.org"

\* lines 177-180 and 284-287
BaseUrls == IF OFF_BASE_URL = World THEN <<World>> ELSE <<OFF_BASE_URL, World>>

\* what a base URL may answer: a transport error, or {status, json}; json is
\* "none" when the body did not parse (or parsed to a falsy value), else the
\* parsed body, named by its content
OffContents == {"A", "B"}
OffFailures ==
    {[kind |-> "error", status |-> 0, json |-> None]}
    \cup [kind : {"response"}, status : {500}, json : {None} \cup OffContents]
    \cup {[kind |-> "response", status |-> 200, json |-> None]}
OffSuccesses == [kind : {"response"}, status : {200}, json : OffContents]

\* lines 192-197: the attempt throws
AttemptFails(r) == r.kind = "error" \/ ~Status2xx(r.status) \/ r.json = None

Searches == 1 .. MaxSearches

\* a query parameter: given or not, and its Number() when given
Absent == [given |-> FALSE, v |-> 0]
Param(n) == [given |-> TRUE, v |-> n]
PageParams == {Absent} \cup {Param(n) : n \in -1 .. MaxPageParam}
SizeParams ==
    {Absent} \cup {Param(n) : n \in (-1 .. MaxPageParam)
                              \cup (MaxPageSize - MaxOver .. MaxPageSize + MaxOver)
                              \cup {HandlerPageSizeDefault, InvalidPageSizeDefault}}
Queries == {"", "leche"}
SearchRequests == [q : Queries, page : PageParams, page_size : SizeParams]

\* the requests of the runs that exercise the cache: two keys, one of them
\* reached by two spellings of the query
CacheRequests ==
    {[q |-> "leche", page |-> Absent, page_size |-> Param(2)],
     [q |-> "Leche", page |-> Absent, page_size |-> Param(2)],
     [q |-> "leche", page |-> Absent, page_size |-> Param(MaxPageSize + 1)]}

ToLowerCase(q) == IF q = "Leche" THEN "leche" ELSE q

\* lines 390-391: Number(url.searchParams.get(name) || dflt)
NumberOr(param, dflt) == IF param.given THEN param.v ELSE dflt

\* line 175
SafePage(page) == IF page > 0 THEN page ELSE 1

\* the page size without its upper limit
SafePageSize_NoLimit(pageSize) ==
    IF pageSize > 0 THEN pageSize ELSE InvalidPageSizeDefault

\* line 176
SafePageSize(pageSize) ==
    IF pageSize > 0
    THEN (IF pageSize < MaxPageSize THEN pageSize ELSE MaxPageSize)
    ELSE InvalidPageSizeDefault

\* lines 400-406: the cache key (region and base URL are fixed in a run)
CacheKey(q, page, pageSize) == [q |-> ToLowerCase(q), page |-> page, pageSize |-> pageSize]

NoData == [content |-> None, page |-> 0, pageSize |-> 0]
NoKey == [q |-> "", page |-> 0, pageSize |-> 0]
NoRequest == [q |-> "", page |-> Absent, page_size |-> Absent]

\* lines 230-235: fetchFoods' result (items and count by their content)
SearchResponse(content, page, pageSize) ==
    [content |-> content, page |-> SafePage(page), pageSize |-> SafePageSize(pageSize)]

\* an entry that is overwritten keeps its expiry
CachePut_KeepsExpiry(cache, key, data, t) ==
    [k \in DOMAIN cache \cup {key} |->
        IF k = key
        THEN [data |-> data,
              expiresAt |-> IF key \in DOMAIN cache THEN cache[key].expiresAt
                            ELSE t + SEARCH_CACHE_TTL_MS]
        ELSE cache[k]]

\* line 416: Map.set
CachePut(cache, key, data, t) ==
    [k \in DOMAIN cache \cup {key} |->
        IF k = key THEN [data |-> data, expiresAt |-> t + SEARCH_CACHE_TTL_MS]
        ELSE cache[k]]

\* the expired entry is left in the map
CacheDelete_Keeps(cache, key) == cache

\* line 413: Map.delete
CacheDelete(cache, key) == [k \in DOMAIN cache \ {key} |-> cache[k]]

\* line 408: the entry is served
CacheFresh(cache, key, t) == key \in DOMAIN cache /\ cache[key].expiresAt > t

\* a request in the handler: awaiting the k-th base URL's answer, or not there
IdleSearch == [pc |-> "idle", req |-> NoRequest, key |-> NoKey, k |-> 0]

\* the last answer sent to a client of /api/search: from is "cache" or
\* "upstream"; contacted lists the base URLs requested for it; err is the
\* attempt whose error the 500 carries
NoAnswer ==
    [req |-> NoRequest, key |-> NoKey, status |-> 0, data |-> NoData, from |-> None,
     contacted |-> <<>>, err |-> 0]

InitSearch ==
    /\ searchCache = <<>>
    /\ sreq = [s \in Searches |-> IdleSearch]
    /\ sres = NoAnswer

Contacted(k) == [n \in 1 .. k |-> BaseUrls[n]]

\* lines 388-415 and fetchFoods' 174-191: the request arrives; up to the await
\* of the first upstream request.  The slots are interchangeable, so a new
\* request takes the first free one.
SearchArrives(s) ==
    /\ sreq[s].pc = "idle"
    /\ \A t \in Searches : t < s => sreq[t].pc # "idle"
    /\ \E r \in offered :
        LET page == NumberOr(r.page, HandlerPageDefault)
            pageSize == NumberOr(r.page_size, HandlerPageSizeDefault)
            key == CacheKey(r.q, page, pageSize)
        IN  IF r.q = ""
            THEN /\ sres' = [NoAnswer EXCEPT !.req = r, !.status = 400]
                 /\ UNCHANGED <<sreq, searchCache>>
            ELSE IF CacheFresh(searchCache, key, now)
            THEN /\ sres' = [NoAnswer EXCEPT !.req = r, !.key = key, !.status = 200,
                                            !.from = "cache",
                                            !.data = searchCache[key].data]
                 /\ UNCHANGED <<sreq, searchCache>>
            ELSE /\ searchCache' = CacheDelete(searchCache, key)
                 /\ sreq' = [sreq EXCEPT ![s] =
                                [pc |-> "fetching", req |-> r, key |-> key, k |-> 1]]
                 /\ sres' = sres
    /\ UNCHANGED <<now, tokenVars, geminiVars, OFF_BASE_URL, offered, barcodeVars, foodVars>>

\* lines 187-207 and 419-422: a base URL's attempt fails
SearchAttemptFails(s) ==
    /\ sreq[s].pc = "fetching"
    /\ (\E r \in OffFailures : AttemptFails(r)) = TRUE
    /\ IF sreq[s].k < Len(BaseUrls)
       THEN /\ sreq' = [sreq EXCEPT ![s].k = sreq[s].k + 1]
            /\ sres' = sres
       ELSE \* line 206 throws lastError, the error of this attempt
            /\ sreq' = [sreq EXCEPT ![s] = IdleSearch]
            /\ sres' = [NoAnswer EXCEPT !.req = sreq[s].req, !.key = sreq[s].key,
                                       !.status = 500, !.err = sreq[s].k,
                                       !.contacted = Contacted(sreq[s].k)]
    /\ UNCHANGED <<now, tokenVars, geminiVars, OFF_BASE_URL, searchCache, offered, barcodeVars, foodVars>>

\* lines 187-199, 209-235 and 416-418: a base URL answers; the result is
\* stored and sent
SearchAttemptSucceeds(s) ==
    /\ sreq[s].pc = "fetching"
    /\ \E r \in OffSuccesses :
        LET data == SearchResponse(r.json, sreq[s].key.page, sreq[s].key.pageSize)
        IN  /\ ~AttemptFails(r)
            /\ searchCache' = CachePut(searchCache, sreq[s].key, data, now)
            /\ sreq' = [sreq EXCEPT ![s] = IdleSearch]
            /\ sres' = [NoAnswer EXCEPT !.req = sreq[s].req, !.key = sreq[s].key,
                                       !.status = 200, !.from = "upstream",
                                       !.data = data,
                                       !.contacted = Contacted(sreq[s].k)]
    /\ UNCHANGED <<now, tokenVars, geminiVars, OFF_BASE_URL, offered, barcodeVars, foodVars>>

LongTick ==
    /\ now < MaxLongTicks * LongStepMs
    /\ now' = now + LongStepMs
    /\ UNCHANGED <<tokenVars, geminiVars, OFF_BASE_URL, searchVars, barcodeVars, foodVars>>

NextSearch ==
    \/ LongTick
    \/ \E s \in Searches : SearchArrives(s)
    \/ \E s \in Searches : SearchAttemptFails(s)
    \/ \E s \in Searches : SearchAttemptSucceeds(s)

----------------------------------------------------------------------------
\* IEEE 754 binary64 arithmetic on non-negative values, as JavaScript's
\* Number does it.  A natural number too large for an integer of the model is
\* the sequence of its bits, most significant first, without leading zeros.
DoublePrecision == 53

Zeros(k) == [i \in 1 .. k |-> 0]

BitLen(v) == IF v = 0 THEN 0 ELSE CHOOSE n \in 1 .. 30 : v \div 2 ^ (n - 1) = 1

BitsOf(v) == [i \in 1 .. BitLen(v) |-> (v \div 2 ^ (BitLen(v) - i)) % 2]

\* v as exactly 15 bits, one limb
LimbOf(v) == [i \in 1 .. 15 |-> (v \div 2 ^ (15 - i)) % 2]

\* the value of at most 30 bits
RECURSIVE ValueOf(_)
ValueOf(bits) ==
    IF Len(bits) = 0 THEN 0
    ELSE IF Len(bits) = 1 THEN bits[1]
    ELSE LET h == Len(bits) \div 2
         IN  ValueOf(SubSeq(bits, 1, h)) * 2 ^ (Len(bits) - h)
             + ValueOf(SubSeq(bits, h + 1, Len(bits)))

StripZeros(bits) ==
    IF \A i \in 1 .. Len(bits) : bits[i] = 0 THEN <<>>
    ELSE LET lead == CHOOSE i \in 1 .. Len(bits) :
                        bits[i] = 1 /\ \A j \in 1 .. i - 1 : bits[j] = 0
         IN  SubSeq(bits, lead, Len(bits))

\* bits + 1
Increment(bits) ==
    IF \A i \in 1 .. Len(bits) : bits[i] = 1 THEN <<1>> \o Zeros(Len(bits))
    ELSE LET p == CHOOSE i \in 1 .. Len(bits) :
                     bits[i] = 0 /\ \A j \in i + 1 .. Len(bits) : bits[j] = 1
         IN  [i \in 1 .. Len(bits) |->
                 IF i < p THEN bits[i] ELSE IF i = p THEN 1 ELSE 0]

\* bits (at most 4 limbs) times c (less than 2^15), limb by limb
MulSmall(bits, c) ==
    LET padded == Zeros(60 - Len(bits)) \o bits
        limb(k) == ValueOf(SubSeq(padded, (3 - k) * 15 + 1, (4 - k) * 15))
        base == 2 ^ 15
        p0 == limb(0) * c
        p1 == limb(1) * c + p0 \div base
        p2 == limb(2) * c + p1 \div base
        p3 == limb(3) * c + p2 \div base
    IN  StripZeros(BitsOf(p3 \div base) \o LimbOf(p3 % base) \o LimbOf(p2 % base)
                   \o LimbOf(p1 % base) \o LimbOf(p0 % base))

\* 2^i mod 100
RECURSIVE Pow2Mod100(_)
Pow2Mod100(i) ==
    IF i <= 30 THEN (2 ^ i) % 100 ELSE (((2 ^ 30) % 100) * Pow2Mod100(i - 30)) % 100

\* the remainder of g * 2^i divided by 100
RemainderAt(g, i) == ((g % 100) * Pow2Mod100(i)) % 100

\* g / 100 in binary, to n places after the point
QuotientBits(g, n) ==
    StripZeros(BitsOf(g \div 100)
               \o [i \in 1 .. n |-> (2 * RemainderAt(g, i - 1)) \div 100])

\* round to nearest, ties to even, at DoublePrecision significant bits: the
\* value is bits plus a fraction that is non-zero iff sticky; the result is
\* m * 2^dropped
RoundToDouble(bits, sticky) ==
    IF Len(bits) <= DoublePrecision THEN [m |-> bits, dropped |-> 0]
    ELSE LET keep == SubSeq(bits, 1, DoublePrecision)
             rest == SubSeq(bits, DoublePrecision + 1, Len(bits))
             below == sticky \/ \E i \in 2 .. Len(rest) : rest[i] = 1
             up == rest[1] = 1 /\ (below \/ keep[DoublePrecision] = 1)
         IN  [m |-> IF up THEN Increment(keep) ELSE keep, dropped |-> Len(rest)]

\* lines 352 and 356-359: Math.round(c * (g / 100)) for integers c, g >= 0.
\* The quotient is rounded to a double, the product is rounded to a double,
\* and Math.round takes the nearest integer, the upper one of two.
MathRoundScaled(c, g) ==
    IF c = 0 \/ g = 0 THEN 0
    ELSE LET places == DoublePrecision + 8
             ratio == RoundToDouble(QuotientBits(g, places), RemainderAt(g, places) # 0)
             prod == RoundToDouble(MulSmall(ratio.m, c), FALSE)
             frac == places - ratio.dropped - prod.dropped
             n == Len(prod.m)
         IN  IF n < frac THEN 0
             ELSE ValueOf(SubSeq(prod.m, 1, n - frac)) + prod.m[n - frac + 1]

----------------------------------------------------------------------------
(* findFoodByBarcode and /api/barcode.                                     *)

\* a nutriment of the provider's JSON: given or not, and its value in tenths
Tenths(t) == [given |-> TRUE, v |-> t]

\* `a || b || 0` on two nutriments, in tenths: 0 and a missing value are falsy
FirstTruthy(a, b) ==
    IF a.given /\ a.v # 0 THEN a.v ELSE IF b.given /\ b.v # 0 THEN b.v ELSE 0

\* Math.round of a value given in tenths: the nearest integer, the upper one
\* of two (a tie, x.5, is a double exactly)
MathRoundTenths(t) == (t + 5) \div 10

Nutriments ==
    [energy_kcal_100g : {Absent, Tenths(0), Tenths(250)},
     energy_kcal : {Absent, Tenths(104)},
     proteins_100g : {Absent, Tenths(15)},
     proteins : {Tenths(34)},
     fat_100g : {Tenths(0)},
     fat : {Tenths(25)},
     carbohydrates_100g : {Tenths(5)},
     carbohydrates : {Absent}]

\* lines 327-332
Per100g(n) ==
    [calories |-> MathRoundTenths(FirstTruthy(n.energy_kcal_100g, n.energy_kcal)),
     protein |-> MathRoundTenths(FirstTruthy(n.proteins_100g, n.proteins)),
     fat |-> MathRoundTenths(FirstTruthy(n.fat_100g, n.fat)),
     carbohydrate |-> MathRoundTenths(FirstTruthy(n.carbohydrates_100g, n.carbohydrates))]

\* serving_size strings: sequences of characters
Chars == {"5", "8", "g"}
Digits == {"0", "1", "2", "3", "4", "5", "6", "7", "8", "9"}
Strings(n) == UNION {[1 .. k -> Chars] : k \in 0 .. n}
ServingSizes == Strings(MaxStrLen) \cup {<<"2", "5", "0", "g">>}

DigitValue(ch) ==
    CASE ch = "0" -> 0 [] ch = "1" -> 1 [] ch = "2" -> 2 [] ch = "3" -> 3
      [] ch = "4" -> 4 [] ch = "5" -> 5 [] ch = "6" -> 6 [] ch = "7" -> 7
      [] ch = "8" -> 8 [] ch = "9" -> 9

\* parseInt of a string of digits
RECURSIVE ParseInt(_)
ParseInt(str) ==
    IF str = <<>> THEN 0
    ELSE 10 * ParseInt(SubSeq(str, 1, Len(str) - 1)) + DigitValue(str[Len(str)])

\* line 350: str.match(/(\d+)/), the first and longest run of digits; <<>> for
\* no match
MatchDigits(str) ==
    IF \A i \in 1 .. Len(str) : str[i] \notin Digits THEN <<>>
    ELSE LET first == CHOOSE i \in 1 .. Len(str) :
                         str[i] \in Digits /\ \A j \in 1 .. i - 1 : str[j] \notin Digits
             last == CHOOSE i \in first .. Len(str) :
                         /\ \A j \in first .. i : str[j] \in Digits
                         /\ (i = Len(str) \/ str[i + 1] \notin Digits)
         IN  SubSeq(str, first, last)

\* line 351
ServingGrams(str) == IF MatchDigits(str) = <<>> THEN 100 ELSE ParseInt(MatchDigits(str))

\* MathRoundScaled, computed once for the values the products give rise to
Per100gValues ==
    UNION {{Per100g(n).calories, Per100g(n).protein, Per100g(n).fat,
            Per100g(n).carbohydrate} : n \in Nutriments}
GramValues == {ServingGrams(str) : str \in ServingSizes}
Scaled == [c \in Per100gValues |-> [g \in GramValues |-> MathRoundScaled(c, g)]]

\* lines 354-362
Serving(description, per100g, grams) ==
    [serving_description |-> description,
     calories |-> Scaled[per100g.calories][grams],
     protein |-> Scaled[per100g.protein][grams],
     fat |-> Scaled[per100g.fat][grams],
     carbohydrate |-> Scaled[per100g.carbohydrate][grams],
     metric_serving_amount |-> grams,
     metric_serving_unit |-> "g"]

\* lines 338-346
Serving100g(per100g) ==
    [serving_description |-> <<"1", "0", "0", "g">>,
     calories |-> per100g.calories,
     protein |-> per100g.protein,
     fat |-> per100g.fat,
     carbohydrate |-> per100g.carbohydrate,
     metric_serving_amount |-> 100,
     metric_serving_unit |-> "g"]

\* a product of the provider's JSON; serving_size may be missing
NoServingSize == [given |-> FALSE, str |-> <<>>]
Products ==
    [nutriments : Nutriments,
     serving_size : {NoServingSize} \cup [given : {TRUE}, str : ServingSizes]]
NoProduct ==
    [nutriments |-> [energy_kcal_100g |-> Absent, energy_kcal |-> Absent,
                     proteins_100g |-> Absent, proteins |-> Absent,
                     fat_100g |-> Absent, fat |-> Absent,
                     carbohydrates_100g |-> Absent, carbohydrates |-> Absent],
     serving_size |-> NoServingSize]
SampleProduct ==
    [nutriments |-> [energy_kcal_100g |-> Tenths(250), energy_kcal |-> Absent,
                     proteins_100g |-> Absent, proteins |-> Tenths(34),
                     fat_100g |-> Tenths(0), fat |-> Absent,
                     carbohydrates_100g |-> Tenths(5), carbohydrates |-> Absent],
     serving_size |-> NoServingSize]

\* lines 335-363: the servings of a product
Servings(product) ==
    LET per100g == Per100g(product.nutriments)
        size == product.serving_size
    IN  IF size.given /\ size.str # <<>>
        THEN <<Serving100g(per100g), Serving(size.str, per100g, ServingGrams(size.str))>>
        ELSE <<Serving100g(per100g)>>

\* what a base URL may answer to the per-barcode request: a transport error,
\* or a status with a body.  parsed says whether requestJson's json is truthy;
\* flag is json.status.
BarcodeResponse(kind, status, parsed, flag, hasProduct, product) ==
    [kind |-> kind, status |-> status, parsed |-> parsed, flag |-> flag,
     hasProduct |-> hasProduct, product |-> product]
NoBarcodeResponse == BarcodeResponse("none", 0, FALSE, 0, FALSE, NoProduct)
BarcodeResponses ==
    {BarcodeResponse("error", 0, FALSE, 0, FALSE, NoProduct)}
    \cup {BarcodeResponse("response", st, FALSE, 0, FALSE, NoProduct) : st \in {200, 500}}
    \cup {BarcodeResponse("response", st, TRUE, fl, FALSE, NoProduct) :
            st \in {200, 500}, fl \in {0, 1}}
    \cup {BarcodeResponse("response", 500, TRUE, 1, TRUE, SampleProduct)}
    \cup {BarcodeResponse("response", 200, TRUE, 1, TRUE, p) : p \in Products}

\* an error: its kind, the attempt it came from and whether its message
\* contains "Producto no encontrado"
NoError == [kind |-> None, attempt |-> 0, says |-> FALSE]

\* lines 302-307 throw, or requestJson rejects: the error caught at line 309.
\* Its message is the transport error's or "Open Food Facts error: " and the
\* body's text; the provider's texts are taken not to contain "Producto no
\* encontrado".
AttemptError(r, k) == [kind |-> "upstream", attempt |-> k, says |-> FALSE]

\* lines 314-371 once the loop is over: response is the variable of line 289
FindFoodResult(response, lastError, barcode) ==
    IF response.kind = "none" \/ ~response.parsed
    THEN [ok |-> FALSE, error |-> lastError, servings |-> <<>>]
    ELSE IF response.flag # 1
    THEN [ok |-> FALSE, servings |-> <<>>,
          error |-> [kind |-> "notfound", attempt |-> 0, says |-> TRUE]]
    ELSE IF ~response.hasProduct
    THEN \* product.nutriments of undefined: a TypeError
         [ok |-> FALSE, servings |-> <<>>,
          error |-> [kind |-> "type", attempt |-> 0, says |-> FALSE]]
    ELSE [ok |-> TRUE, error |-> NoError, servings |-> Servings(response.product)]

\* every error is answered 500
ErrorStatus_Always500(error) == 500

\* line 462
ErrorStatus(error) == IF error.says THEN 404 ELSE 500

Barcodes == {"", "8480000"}

IdleBarcode ==
    [pc |-> "idle", barcode |-> "", k |-> 0, response |-> NoBarcodeResponse,
     lastError |-> NoError, tried |-> <<>>]

\* the answer to the last request of /api/barcode, once sent; tried lists, for every
\* attempt, the base URL and what it answered; product is the product of the
\* response the answer was computed from
NoBarcodeAnswer ==
    [barcode |-> "", status |-> 0, error |-> NoError, servings |-> <<>>,
     tried |-> <<>>, product |-> NoProduct]

InitBarcode ==
    /\ breq = IdleBarcode
    /\ bres = NoBarcodeAnswer

\* lines 447-457 and 284-301: the request arrives; up to the first await
BarcodeArrives ==
    /\ breq.pc = "idle"
    /\ \E barcode \in Barcodes :
        IF barcode = ""
        THEN /\ bres' = [NoBarcodeAnswer EXCEPT !.status = 400]
             /\ breq' = breq
        ELSE /\ breq' = [IdleBarcode EXCEPT !.pc = "fetching", !.barcode = barcode, !.k = 1]
             /\ bres' = NoBarcodeAnswer
    /\ UNCHANGED <<now, tokenVars, geminiVars, OFF_BASE_URL, searchVars, foodVars>>

Attempt(r, url) ==
    [url |-> url, kind |-> r.kind, status |-> r.status, parsed |-> r.parsed,
     flag |-> r.flag]

\* lines 297-320 and 458-465: a base URL's attempt ends
BarcodeAttemptEnds ==
    /\ breq.pc = "fetching"
    /\ \E r \in BarcodeResponses :
        LET failed == r.kind = "error" \/ ~Status2xx(r.status) \/ ~r.parsed
            \* line 297 assigns only when the await resolves
            response == IF r.kind = "error" THEN breq.response ELSE r
            lastError == IF failed THEN AttemptError(r, breq.k) ELSE breq.lastError
            tried == Append(breq.tried, Attempt(r, BaseUrls[breq.k]))
            result == FindFoodResult(response, lastError, breq.barcode)
        IN  IF failed /\ breq.k < Len(BaseUrls)
            THEN /\ breq' = [breq EXCEPT !.k = breq.k + 1, !.response = response,
                                         !.lastError = lastError, !.tried = tried]
                 /\ bres' = bres
            ELSE /\ breq' = IdleBarcode
                 /\ bres' = [barcode |-> breq.barcode,
                             status |-> IF result.ok THEN 200 ELSE ErrorStatus(result.error),
                             error |-> result.error,
                             servings |-> result.servings,
                             tried |-> tried,
                             product |-> response.product]
    /\ UNCHANGED <<now, tokenVars, geminiVars, OFF_BASE_URL, searchVars, foodVars>>

NextBarcode ==
    \/ BarcodeArrives
    \/ BarcodeAttemptEnds

----------------------------------------------------------------------------
(* /api/food: fetchFoodDetails and its getAccessToken call.  The food      *)
(* request in slot c makes the getAccessToken invocation call[c].          *)

\* url.searchParams.get("food_id"): missing, or an id
FoodIds == {"", "33691"}

\* what the token endpoint answers in these runs: every failure, and of the
\* successes a token that lasts, one that has expired on arrival and an
\* answer without access_token
FoodTokenResponses ==
    {r \in TokenResponses :
        ~ExchangeFails(r) =>
            r.json \in {[access_token |-> "tokA", expires_in |-> 30],
                        [access_token |-> "tokA", expires_in |-> 0],
                        [access_token |-> "", expires_in |-> 0]}}

\* what the food-detail request may answer (its json by whether it is truthy)
DetailsResponses ==
    {[kind |-> "error", status |-> 0, parsed |-> FALSE]}
    \cup [kind : {"response"}, status : {200, 500}, parsed : BOOLEAN]

\* lines 254-260 throw, or requestJson rejects
DetailsFails(r) == r.kind = "error" \/ ~Status2xx(r.status) \/ ~r.parsed

\* a food request: in getAccessToken's exchange ("token", the invocation being
\* call[c]) or awaiting the food-detail answer ("details").  clean tells that
\* no exchange has succeeded since its getAccessToken call began.
IdleFood == [pc |-> "idle", clean |-> FALSE]

\* the last answer sent to a client of /api/food: its status and body, the
\* await it came from, and whether the food-detail request was sent
NoFoodAnswer == [status |-> 0, body |-> None, stage |-> None, requested |-> FALSE]

\* the exchange processed last: the answer it got, what getAccessToken made
\* of it, whether that call was clean, and whether a getAccessToken call has
\* begun since
NoExchangeYet ==
    [last |-> None, clean |-> FALSE, kind |-> None, status |-> 0, next |-> FALSE]

InitFood ==
    /\ freq = [c \in Calls |-> IdleFood]
    /\ fres = NoFoodAnswer
    /\ exch = NoExchangeYet

\* lines 427-436, 242 and 124-142: the request arrives.  With a cached token
\* getAccessToken returns at line 126 and the food-detail request is sent
\* (line 248); otherwise the exchange is sent.  The slots are interchangeable,
\* so a new request takes the first free one.
FoodArrives(c) ==
    /\ freq[c].pc = "idle"
    /\ \A d \in Calls : d < c => freq[d].pc # "idle"
    /\ \E id \in FoodIds :
        IF id = ""
        THEN /\ fres' = [NoFoodAnswer EXCEPT !.status = 400, !.body = "error",
                                             !.stage = "handler"]
             /\ UNCHANGED <<freq, call, wire, exch>>
        ELSE IF CachedTokenValid(tokenCache, now)
        THEN \* the invocation call[c] has returned tokenCache.token
             /\ freq' = [freq EXCEPT ![c] = [pc |-> "details", clean |-> FALSE]]
             /\ exch' = [exch EXCEPT !.next = TRUE]
             /\ UNCHANGED <<call, wire, fres>>
        ELSE /\ call' = [call EXCEPT ![c] =
                    [pc |-> "awaiting", now |-> now, outcome |-> None,
                     ret |-> None, own |-> None]]
             /\ wire' = wire \cup {c}
             /\ freq' = [freq EXCEPT ![c] = [pc |-> "token", clean |-> TRUE]]
             /\ exch' = [exch EXCEPT !.next = TRUE]
             /\ fres' = fres
    /\ UNCHANGED <<now, tokenCache, processed, geminiVars, OFF_BASE_URL,
                   searchVars, barcodeVars>>

\* lines 135, 144-151, then 243-252 or 439-443: the exchange's answer
\* arrives.  A failure throws through fetchFoodDetails to the handler's
\* catch; a success writes the cache and the food-detail request is sent.
FoodTokenResponse(c) ==
    /\ freq[c].pc = "token"
    /\ call[c].pc = "awaiting"
    /\ c \in wire
    /\ wire' = wire \ {c}
    /\ \E r \in FoodTokenResponses :
        IF ExchangeFails(r)
        THEN /\ call' = [call EXCEPT ![c] = IdleCall]
             /\ freq' = [freq EXCEPT ![c] = IdleFood]
             /\ fres' = [status |-> 500, body |-> "error", stage |-> "token",
                         requested |-> FALSE]
             /\ exch' = [last |-> "failed", clean |-> freq[c].clean,
                         kind |-> r.kind, status |-> r.status, next |-> FALSE]
             /\ UNCHANGED <<tokenCache, processed>>
        ELSE /\ tokenCache' = StoreToken(tokenCache, call[c].now, r.json)
             /\ processed' = [any |-> TRUE, now |-> call[c].now, json |-> r.json]
             /\ call' = [call EXCEPT ![c] = IdleCall]
             /\ freq' = [d \in Calls |->
                           IF d = c
                           THEN [pc |-> "details", clean |-> FALSE]
                           ELSE [freq[d] EXCEPT !.clean = FALSE]]
             /\ exch' = [last |-> "ok", clean |-> FALSE,
                         kind |-> r.kind, status |-> r.status, next |-> FALSE]
             /\ fres' = fres
    /\ UNCHANGED <<now, geminiVars, OFF_BASE_URL, searchVars, barcodeVars>>

\* lines 248-279 and 437-443: the food-detail answer arrives
FoodDetailsResponse(c) ==
    /\ freq[c].pc = "details"
    /\ \E fails \in BOOLEAN :
        /\ (\E r \in DetailsResponses : DetailsFails(r) = fails) = TRUE
        /\ fres' = [status |-> IF fails THEN 500 ELSE 200,
                    body |-> IF fails THEN "error" ELSE "data",
                    stage |-> "details", requested |-> TRUE]
    /\ freq' = [freq EXCEPT ![c] = IdleFood]
    /\ UNCHANGED <<now, tokenVars, exch, geminiVars, OFF_BASE_URL,
                   searchVars, barcodeVars>>

NextFood ==
    \/ Tick
    \/ \E c \in Calls : FoodArrives(c)
    \/ \E c \in Calls : FoodTokenResponse(c)
    \/ \E c \in Calls : FoodDetailsResponse(c)

----------------------------------------------------------------------------

Init ==
    /\ now = 0
    /\ InitToken
    /\ OFF_BASE_URL = Es
    /\ InitSearch
    /\ offered = {}
    /\ InitBarcode
    /\ InitFood
    /\ GEMINI_API_KEY = TRUE
    /\ GEMINI_MODELS = [k \in 1 .. MaxModels |-> k]
    /\ GEMINI_API_VERSIONS = [k \in 1 .. MaxVersions |-> k]
    /\ greq = IdleRequest
    /\ glog = <<>>

SpecToken == Init /\ [][NextToken]_vars

InitGeminiSpec ==
    /\ now = 0
    /\ InitToken
    /\ InitGemini
    /\ OFF_BASE_URL = Es
    /\ InitSearch
    /\ offered = {}
    /\ InitBarcode
    /\ InitFood

InitRest ==
    /\ now = 0
    /\ InitToken
    /\ InitFood
    /\ GEMINI_API_KEY = TRUE
    /\ GEMINI_MODELS = [k \in 1 .. MaxModels |-> k]
    /\ GEMINI_API_VERSIONS = [k \in 1 .. MaxVersions |-> k]
    /\ greq = IdleRequest
    /\ glog = <<>>

\* the cache under concurrent requests for two keys
InitSearchSpec ==
    /\ InitRest /\ InitSearch /\ InitBarcode
    /\ OFF_BASE_URL = Es
    /\ offered = CacheRequests

SpecSearch == InitSearchSpec /\ [][NextSearch]_vars

\* any one request, sent as often as the clients like
InitPagingSpec ==
    /\ InitRest /\ InitSearch /\ InitBarcode
    /\ OFF_BASE_URL \in {Es, World}
    /\ \E r \in SearchRequests : offered = {r}

SpecPaging == InitPagingSpec /\ [][NextSearch]_vars

InitBarcodeSpec ==
    /\ InitRest /\ InitSearch /\ InitBarcode
    /\ OFF_BASE_URL \in {Es, World}
    /\ offered = {}

SpecBarcode == InitBarcodeSpec /\ [][NextBarcode]_vars

SpecGemini == InitGeminiSpec /\ [][NextGemini]_vars

SpecFood == Init /\ [][NextFood]_vars

----------------------------------------------------------------------------
(* Claims about the generative-AI gateway.                                 *)

\* the k-th pair of the model-major, version-minor order
PairModel(k) == GEMINI_MODELS[((k - 1) \div Len(GEMINI_API_VERSIONS)) + 1]
PairVersion(k) == GEMINI_API_VERSIONS[((k - 1) % Len(GEMINI_API_VERSIONS)) + 1]
NumPairs == Len(GEMINI_MODELS) * Len(GEMINI_API_VERSIONS)

\* C2: callGemini calls the pairs model-major, version-minor; it throws only
\* after every pair was called and answered non-2xx; and after a 2xx answer
\* no further pair is called.
C2_EveryPairBeforeThrow ==
    /\ Len(glog) <= NumPairs
    /\ \A k \in 1 .. Len(glog) :
          /\ glog[k].model = PairModel(k)
          /\ glog[k].version = PairVersion(k)
          /\ glog[k].outcome = "2xx" => k = Len(glog)
    /\ greq.threw =>
          /\ Len(glog) = NumPairs
          /\ \A k \in 1 .. Len(glog) : glog[k].outcome = "non2xx"

\* C8: with the API key configured, a body that is not JSON is answered 400
\* like a body without the required field, and no generation call is made.
C8_UnparseableBodyIs400 ==
    (GEMINI_API_KEY /\ greq.pc = "responded" /\ greq.body = "{oops")
    => (greq.status = 400 /\ glog = <<>>)

----------------------------------------------------------------------------
(* Claims about /api/search.                                               *)

\* C3: every stored entry expires 5 minutes after it was stored; a lookup
\* of a key whose entry has not expired is answered with the stored response,
\* with no upstream request and no change to the map; a lookup that goes
\* upstream found no unexpired entry and leaves none under its key.
C3_CacheServesUntilTtl ==
    [][/\ \A key \in DOMAIN searchCache' :
            (key \notin DOMAIN searchCache \/ searchCache'[key] # searchCache[key])
            => searchCache'[key].expiresAt = now + SEARCH_CACHE_TTL_MS
       /\ \A s \in Searches :
            (sreq[s].pc = "idle" /\ sreq'[s].pc = "fetching")
            => /\ ~(/\ sreq'[s].key \in DOMAIN searchCache
                    /\ now < searchCache[sreq'[s].key].expiresAt)
               /\ sreq'[s].key \notin DOMAIN searchCache'
       /\ (sres' # sres /\ sres'.from = "cache")
            => /\ sres'.key \in DOMAIN searchCache
               /\ now < searchCache[sres'.key].expiresAt
               /\ sres'.status = 200
               /\ sres'.data = searchCache[sres'.key].data
               /\ searchCache' = searchCache
               /\ sreq' = sreq]_vars

\* a key was served from the cache, and now, 5 minutes or more later, a
\* request for it is upstream again and its entry is gone from the map
C3_Witness ==
    /\ sres.from = "cache"
    /\ sres.status = 200
    /\ now >= SEARCH_CACHE_TTL_MS
    /\ \E s \in Searches :
        /\ sreq[s].pc = "fetching"
        /\ sreq[s].key = sres.key
        /\ sreq[s].key \notin DOMAIN searchCache

\* in this step the request in slot s leaves the handler
SearchEnds(s) == sreq[s].pc = "fetching" /\ sreq'[s].pc = "idle"

\* C12: under any interleaving of concurrent searches, an entry enters or
\* changes in the cache only when a request with its key ends with a
\* successful upstream search, and it then holds that request's data with
\* expiresAt = now + 5 minutes; a request whose upstream search fails stores
\* nothing and answers 500; a 200 from the cache comes from an entry with
\* expiresAt > now.
C12_EntriesComeFromSuccesses ==
    [][/\ \A key \in DOMAIN searchCache' :
            (key \notin DOMAIN searchCache \/ searchCache'[key] # searchCache[key])
            => /\ \E s \in Searches : SearchEnds(s) /\ sreq[s].key = key
               /\ sres'.status = 200
               /\ sres'.from = "upstream"
               /\ sres'.key = key
               /\ searchCache'[key] =
                     [data |-> sres'.data, expiresAt |-> now + SEARCH_CACHE_TTL_MS]
       /\ \A s \in Searches :
            (SearchEnds(s) /\ sres'.from # "upstream")
            => /\ sres'.status = 500
               /\ sres'.key = sreq[s].key
               /\ searchCache' = searchCache
       /\ (sres' # sres /\ sres'.status = 200 /\ sres'.from = "cache")
            => /\ sres'.key \in DOMAIN searchCache
               /\ searchCache[sres'.key].expiresAt > now
       /\ \A key \in DOMAIN searchCache :
            searchCache[key].expiresAt <= now + SEARCH_CACHE_TTL_MS]_vars

\* two requests with the same key both missed: one has just stored its
\* result, and the other is still upstream and will store over it
C12_Witness ==
    \E s \in Searches :
        /\ sreq[s].pc = "fetching"
        /\ sreq[s].key \in DOMAIN searchCache
        /\ searchCache[sreq[s].key].expiresAt = now + SEARCH_CACHE_TTL_MS
        /\ now > 0
        /\ sres.status = 200
        /\ sres.from = "upstream"
        /\ sres.key = sreq[s].key

Min(a, b) == IF a < b THEN a ELSE b

\* C7 as stated: a successful search answers page = the requested page when
\* positive and 1 otherwise, and pageSize = min(requested, 50) when positive
\* and 20 when non-positive or not supplied.
C7_PageSizeDefault20 ==
    sres.status = 200 =>
        /\ sres.data.page =
             (IF sres.req.page.given /\ sres.req.page.v > 0 THEN sres.req.page.v ELSE 1)
        /\ sres.data.pageSize =
             (IF sres.req.page_size.given /\ sres.req.page_size.v > 0
              THEN Min(sres.req.page_size.v, 50) ELSE 20)

\* C7 as amended: pageSize is min(requested, 50) when positive, 20 when
\* supplied and not positive, and 12 when not supplied; so page >= 1 and
\* 1 <= pageSize <= 50, and page=1, page_size=2 answers page 1, pageSize 2.
C7_PageSizeDefault12 ==
    sres.status = 200 =>
        /\ sres.data.page =
             (IF sres.req.page.given /\ sres.req.page.v > 0 THEN sres.req.page.v ELSE 1)
        /\ sres.data.pageSize =
             (IF ~sres.req.page_size.given THEN 12
              ELSE IF sres.req.page_size.v > 0 THEN Min(sres.req.page_size.v, 50)
              ELSE 20)
        /\ sres.data.page >= 1
        /\ sres.data.pageSize >= 1 /\ sres.data.pageSize <= 50
        /\ (sres.req.page = Param(1) /\ sres.req.page_size = Param(2))
             => (sres.data.page = 1 /\ sres.data.pageSize = 2)

\* a search for page 2 without page_size was answered from upstream with
\* pageSize 12
C7_Witness ==
    /\ sres.status = 200
    /\ sres.from = "upstream"
    /\ ~sres.req.page_size.given
    /\ sres.req.page = Param(2)
    /\ sres.data.pageSize = 12

----------------------------------------------------------------------------
(* Claims about /api/barcode.                                              *)

\* an answer to a barcode lookup that went to the provider
BarcodeAnswered == bres.status # 0 /\ bres.tried # <<>>

\* the attempt ended in a transport error, a non-2xx status or a body that
\* is not JSON
AttemptFailed(a) ==
    a.kind = "error" \/ a.status < 200 \/ a.status >= 300 \/ ~a.parsed

\* C4: when the provider answers 2xx with a JSON body whose status flag is
\* not 1, the lookup fails with the not-found error and the answer is 404.
C4_NotFoundIs404 ==
    (/\ BarcodeAnswered
     /\ \E i \in 1 .. Len(bres.tried) :
          /\ ~AttemptFailed(bres.tried[i])
          /\ bres.tried[i].flag # 1)
    => (bres.status = 404 /\ bres.error.kind = "notfound")

\* the primary failed, the fallback answered 2xx with status flag 0: 404
C4_Witness ==
    /\ BarcodeAnswered
    /\ Len(bres.tried) = 2
    /\ bres.tried[1].kind = "error"
    /\ ~AttemptFailed(bres.tried[2])
    /\ bres.tried[2].flag = 0
    /\ bres.status = 404

\* C5: the primary base URL is requested first, the fallback only if it is
\* another URL and the primary attempt failed; a primary success ends the
\* lookup; and when every attempt failed the operation fails with the error
\* of the last attempt.  (findFoodByBarcode and fetchFoods.)
C5_FallbackThenLastError ==
    /\ BarcodeAnswered =>
          /\ bres.tried[1].url = OFF_BASE_URL
          /\ Len(bres.tried) <= 2
          /\ Len(bres.tried) = 2 =>
                /\ OFF_BASE_URL # World
                /\ bres.tried[2].url = World
                /\ AttemptFailed(bres.tried[1])
          /\ ~AttemptFailed(bres.tried[1]) => Len(bres.tried) = 1
          /\ (\A i \in 1 .. Len(bres.tried) : AttemptFailed(bres.tried[i]))
                => /\ bres.error.kind = "upstream"
                   /\ bres.error.attempt = Len(bres.tried)
    /\ sres.contacted # <<>> =>
          /\ sres.contacted[1] = OFF_BASE_URL
          /\ Len(sres.contacted) <= 2
          /\ Len(sres.contacted) = 2 => (OFF_BASE_URL # World /\ sres.contacted[2] = World)
          /\ sres.status = 500 => sres.err = Len(sres.contacted)

\* C6: when no attempt succeeded, the lookup fails with an upstream error
\* and the answer is 500, never 404 and never a product.
C6_UpstreamFailureIs500 ==
    (/\ BarcodeAnswered
     /\ \A i \in 1 .. Len(bres.tried) : AttemptFailed(bres.tried[i]))
    => (bres.status = 500 /\ bres.error.kind = "upstream")

\* r is num / den rounded to the nearest integer, the upper one of two
IsRounded(r, num, den) == 2 * den * r <= 2 * num + den /\ 2 * num + den < 2 * den * (r + 1)

\* the value of `a || b || 0`, in tenths
Per100gSource(a, b) ==
    IF a.given /\ a.v # 0 THEN a.v ELSE IF b.given /\ b.v # 0 THEN b.v ELSE 0

\* the decimal value of the digits str[i .. j]
RECURSIVE DecimalValue(_, _, _)
DecimalValue(str, i, j) ==
    IF j < i THEN 0 ELSE 10 * DecimalValue(str, i, j - 1) + DigitValue(str[j])

\* n is the first integer written in str, or 100 when str has no digit
IsFirstInteger(n, str) ==
    IF \A k \in 1 .. Len(str) : str[k] \notin Digits THEN n = 100
    ELSE \E i \in 1 .. Len(str) : \E j \in i .. Len(str) :
            /\ \A k \in 1 .. i - 1 : str[k] \notin Digits
            /\ \A k \in i .. j : str[k] \in Digits
            /\ (j = Len(str) \/ str[j + 1] \notin Digits)
            /\ n = DecimalValue(str, i, j)

\* C9: a successful lookup's first serving is the "100g" serving with the
\* rounded per-100g values; there is exactly one more serving iff the product
\* has a serving-size string; its amount is the integer of that string (100
\* if none) and each of its nutrients is round(per-100g value * amount / 100).
C9_ScaledServing ==
    bres.status = 200 =>
        LET n == bres.product.nutriments
            size == bres.product.serving_size
            first == bres.servings[1]
            second == bres.servings[2]
        IN  /\ Len(bres.servings) \in {1, 2}
            /\ first.serving_description = <<"1", "0", "0", "g">>
            /\ first.metric_serving_amount = 100
            /\ IsRounded(first.calories, Per100gSource(n.energy_kcal_100g, n.energy_kcal), 10)
            /\ IsRounded(first.protein, Per100gSource(n.proteins_100g, n.proteins), 10)
            /\ IsRounded(first.fat, Per100gSource(n.fat_100g, n.fat), 10)
            /\ IsRounded(first.carbohydrate,
                         Per100gSource(n.carbohydrates_100g, n.carbohydrates), 10)
            /\ Len(bres.servings) = 2 <=> (size.given /\ size.str # <<>>)
            /\ Len(bres.servings) = 2 =>
                  /\ IsFirstInteger(second.metric_serving_amount, size.str)
                  /\ IsRounded(second.calories,
                               first.calories * second.metric_serving_amount, 100)
                  /\ IsRounded(second.protein,
                               first.protein * second.metric_serving_amount, 100)
                  /\ IsRounded(second.fat,
                               first.fat * second.metric_serving_amount, 100)
                  /\ IsRounded(second.carbohydrate,
                               first.carbohydrate * second.metric_serving_amount, 100)

----------------------------------------------------------------------------
(* Claims about /api/food.                                                 *)

\* the exchange answer was a transport error or a non-2xx status
FailedAnswer(e) == e.kind = "error" \/ (e.kind = "response" /\ ~Status2xx(e.status))

\* in this step the exchange of request c fails
ExchangeFailsFor(c) ==
    /\ freq[c].pc = "token"
    /\ freq'[c].pc # "token"
    /\ FailedAnswer(exch')

\* in this step request c calls getAccessToken
CallsGetAccessToken(c) == freq[c].pc = "idle" /\ freq'[c].pc # "idle"

\* a failed exchange makes getAccessToken fail, leaves the cache alone, sends no food-detail request and
\* is answered 500 with an error body
FailureIsContained ==
    \A c \in Calls :
        ExchangeFailsFor(c) =>
            /\ exch'.last = "failed"
            /\ tokenCache' = tokenCache
            /\ freq'[c].pc = "idle"
            /\ fres'.status = 500
            /\ fres'.body = "error"
            /\ ~fres'.requested

----------------------------------------------------------------------------
(* Claims about the Token Manager.                                         *)

\* C1: a getAccessToken call made while a token is cached and
\* now < expiresAt - 10 s returns that cached token, sends no exchange
\* request and leaves the cache as it is, whatever calls came before.
C1_CachedTokenReturned ==
    [][\A c \in Calls :
        (/\ call[c].pc = "idle"
         /\ call'[c].pc # "idle"
         /\ Truthy(tokenCache.token)
         /\ now < tokenCache.expiresAt - TokenMarginMs)
        => (/\ call'[c].pc = "done"
            /\ call'[c].ret = tokenCache.token
            /\ wire' = wire
            /\ tokenCache' = tokenCache)]_vars

\* a call was served from the cache while another call's exchange had failed
C1_Witness ==
    \E c, d \in Calls :
        /\ call[c].outcome = "cached"
        /\ call[c].ret \in {"tokA", "tokB"}
        /\ call[d].outcome = "failed"

\* C10: every call that exchanged returns the token of its own exchange, and
\* the cache always holds the token and the expiry of one and the same
\* exchange, the one whose answer was processed last.
C10_LastExchangeWins ==
    /\ \A c \in Calls :
          call[c].outcome = "exchanged" => call[c].ret = call[c].own
    /\ IF processed.any
       THEN /\ tokenCache.token = processed.json.access_token
            /\ tokenCache.expiresAt = processed.now + processed.json.expires_in * 1000
       ELSE tokenCache = [token |-> Null, expiresAt |-> 0]

\* two calls overlapped (c is still awaiting, d began no earlier and is
\* done), both missed, and the cache holds d's pair over an older one
C10_Witness ==
    \E c, d \in Calls :
        /\ call[c].pc = "awaiting"
        /\ call[d].outcome = "exchanged"
        /\ call[d].now > call[c].now
        /\ tokenCache.token = call[d].own
        /\ tokenCache.expiresAt > call[d].now

====
